---- MODULE Spec2Model ----
(***************************************************************************)
(* Orpheus-TTS streaming token-to-audio decoder                            *)
(* (src/orpheus_tts_pypi/decoder.py): the token parser with its cache,     *)
(* the codec invoker, the streaming scheduler and the sync/async bridge.   *)
(*                                                                         *)
(* Strings are sequences of characters; the literal "<custom_token_" is    *)
(* one element of such a sequence, every other character is one element.   *)
(***************************************************************************)
EXTENDS Integers, Sequences, FiniteSets, TLC

\* ------------------------------------------------------------- bounds
\* accepted tokens of one run of tokens_decoder
MaxCount == 28
\* accepted tokens of one request through tokens_decoder_sync
MaxBridgeCount == 21
\* tokens of one request that are not the plain next token of the stream
MaxOdd == 1
\* odd tokens come before this many tokens have been accepted
OddUntil == 9
\* calls of the parser in the parser-only specification
MaxCalls == 2
\* largest position passed to the parser in the parser-only specification
MaxPos == 7
\* accepted tokens of each of the concurrent requests
MaxThreadCount == 7
\* PCM chunks of one HTTP response
MaxChunks == 4
\* accepted tokens of one long run of tokens_decoder
MaxLongCount == 42

\* ------------------------------------------------- program constants
MAX_CACHE_SIZE == 25000
CUSTOM_TOKEN_PREFIX == "<custom_token_"
CODEBOOK == 4096
TOKEN_BASE == 10
FRAME == 7
MIN_FRAMES_FIRST == 7
MIN_FRAMES_SUBSEQ == 28
PROCESS_EVERY == 7
SLICE_FROM == 2048
SLICE_TO == 4096
\* queue.Queue() is built with the default maxsize, 0: no capacity limit
maxsize == 0

\* --------------------------------------------------- Python strings
DigitChars == <<"0", "1", "2", "3", "4", "5", "6", "7", "8", "9">>
\* U+00B2 SUPERSCRIPT TWO: str.isdigit() is True for it, int() rejects it
SUPERSCRIPT_TWO == "sup2"
Whitespace == {" ", "\n"}

IsDecimal(c) == \E d \in 1..10 : DigitChars[d] = c
DecimalValue(c) == (CHOOSE d \in 1..10 : DigitChars[d] = c) - 1

RECURSIVE lstrip(_)
lstrip(s) == IF s # <<>> /\ Head(s) \in Whitespace THEN lstrip(Tail(s)) ELSE s

RECURSIVE rstrip(_)
rstrip(s) ==
    IF s # <<>> /\ s[Len(s)] \in Whitespace
    THEN rstrip(SubSeq(s, 1, Len(s) - 1))
    ELSE s

\* str.strip()
strip(s) == rstrip(lstrip(s))

\* str.rfind(x): the 0-based index of the last occurrence, -1 when absent
rfind(s, x) ==
    LET at == {i \in 1..Len(s) : s[i] = x}
    IN  IF at = {} THEN -1 ELSE (CHOOSE i \in at : \A j \in at : j <= i) - 1

\* str.endswith(x), x one character
endswith(s, x) == s # <<>> /\ s[Len(s)] = x

\* str.isdigit(): non-empty, every character a digit character
isdigit(s) ==
    /\ s # <<>>
    /\ \A i \in 1..Len(s) : IsDecimal(s[i]) \/ s[i] = SUPERSCRIPT_TWO

\* int(s) raises ValueError unless every character is a decimal digit
int_raises(s) == \E i \in 1..Len(s) : ~IsDecimal(s[i])

RECURSIVE int_value(_)
int_value(s) ==
    IF s = <<>> THEN 0
    ELSE int_value(SubSeq(s, 1, Len(s) - 1)) * 10 + DecimalValue(s[Len(s)])

\* str(n) for n >= 0
RECURSIVE Digits(_)
Digits(n) ==
    IF n < 10 THEN <<DigitChars[n + 1]>>
    ELSE Digits(n \div 10) \o <<DigitChars[(n % 10) + 1]>>

\* the token text "<custom_token_N>"
Tok(n) == <<CUSTOM_TOKEN_PREFIX>> \o Digits(n) \o <<">">>

\* ----------------------------------------------------- token parser
\* Optional[int]
None == [none |-> TRUE, val |-> 0]
Some(n) == [none |-> FALSE, val |-> n]

\* The process-wide cache: tab holds the entries under the keys this model
\* passes to the parser, others counts the entries under all other keys.
EmptyTab == <<>>
cache_len(c) == Cardinality(DOMAIN c.tab) + c.others

\* lines 45-46, 52-53, 58-59, 64-65: insert only below the cap
\* (CacheStoreNone: line 65 written as lines 46, 53 and 59 are, storing None)
CacheStoreNone(c, key, v) ==
    IF cache_len(c) < MAX_CACHE_SIZE
    THEN [c EXCEPT !.tab = (key :> None) @@ c.tab]
    ELSE c
cache_store(c, key, v) ==
    IF cache_len(c) < MAX_CACHE_SIZE
    THEN [c EXCEPT !.tab = (key :> v) @@ c.tab]
    ELSE c

\* line 36
slot_of(index) == index % FRAME

\* line 62 (TokenIdMut: the slot offset taken as 4095 per slot)
TokenIdMut(n, mod) == n - TOKEN_BASE - (mod * (CODEBOOK - 1))
token_id(n, mod) == n - TOKEN_BASE - (mod * CODEBOOK)

\* turn_token_into_id: the value returned (ret), whether the call raised
\* (raised, then ret is meaningless) and the cache after the call
turn_token_into_id(c, token_string0, index) ==
    LET token_string == strip(token_string0)
        mod == slot_of(index)
        cache_key == <<token_string, mod>>
        last_idx == rfind(token_string, CUSTOM_TOKEN_PREFIX)
        token_substr == SubSeq(token_string, last_idx + 1, Len(token_string))
        digits == SubSeq(token_substr, 2, Len(token_substr) - 1)
        reject == [ret |-> None, raised |-> FALSE,
                   cache |-> cache_store(c, cache_key, None)]
    IN  IF cache_key \in DOMAIN c.tab
        THEN [ret |-> c.tab[cache_key], raised |-> FALSE, cache |-> c]
        ELSE IF last_idx = -1 THEN reject
        ELSE IF ~endswith(token_substr, ">") THEN reject
        ELSE IF ~isdigit(digits) THEN reject
        ELSE IF int_raises(digits)
        THEN [ret |-> None, raised |-> TRUE, cache |-> c]
        ELSE LET v == Some(token_id(int_value(digits), mod))
             IN  [ret |-> v, raised |-> FALSE,
                  cache |-> cache_store(c, cache_key, v)]

\* ------------------------------------------------------ codec invoker
\* lines 88-98: the three codebook tensors of a window of num_frames frames
codes_0(multiframe, num_frames) ==
    [i \in 1..num_frames |-> multiframe[(i - 1) * 7 + 1]]

\* (Codes1Adjacent: the second entry taken from base_idx + 2, not base_idx + 4)
Codes1Adjacent(multiframe, num_frames) ==
    [j \in 1..(num_frames * 2) |->
        LET base_idx == ((j - 1) \div 2) * 7
        IN  IF (j - 1) % 2 = 0 THEN multiframe[base_idx + 1 + 1]
                               ELSE multiframe[base_idx + 2 + 1]]

codes_1(multiframe, num_frames) ==
    [j \in 1..(num_frames * 2) |->
        LET base_idx == ((j - 1) \div 2) * 7
        IN  IF (j - 1) % 2 = 0 THEN multiframe[base_idx + 1 + 1]
                               ELSE multiframe[base_idx + 4 + 1]]

codes_2(multiframe, num_frames) ==
    [j \in 1..(num_frames * 4) |->
        LET base_idx == ((j - 1) \div 4) * 7
            k == (j - 1) % 4
        IN  multiframe[base_idx + <<2, 3, 5, 6>>[k + 1] + 1]]

\* lines 101-104: some element < 0 or > 4096
\* (OutOfRangeMut: the upper limit taken as 4095)
\* (OutOfRangeNoUpper: only the test idx < 0, the upper limit forgotten)
OutOfRangeNoUpper(codes) == \E i \in 1..Len(codes) : codes[i] < 0
OutOfRangeMut(codes) == \E i \in 1..Len(codes) : codes[i] < 0 \/ codes[i] > CODEBOOK - 1
out_of_range(codes) == \E i \in 1..Len(codes) : codes[i] < 0 \/ codes[i] > CODEBOOK

\* line 110: audio_hat[:, :, 2048:4096] of a waveform of S samples, as the
\* number of samples in the slice
\* (AudioSliceNext: the slice taken one segment later, [4096:6144])
AudioSliceNext(S) ==
    LET lo == IF S < SLICE_TO THEN S ELSE SLICE_TO
        hi == IF S < SLICE_TO + SLICE_FROM THEN S ELSE SLICE_TO + SLICE_FROM
    IN  hi - lo
audio_slice(S) ==
    LET lo == IF S < SLICE_FROM THEN S ELSE SLICE_FROM
        hi == IF S < SLICE_TO THEN S ELSE SLICE_TO
    IN  hi - lo

\* An audio chunk: the count at which it was decoded, the window it was
\* decoded from and the number of samples it holds (2 bytes each).
Chunk(count, multiframe, n) == [count |-> count, window |-> multiframe, samples |-> n]
NoChunk == Chunk(0, <<>>, 0)

\* convert_to_audio: None (none), or the decoder raised (raised), or a chunk.
\* codec[F] is the number of samples model.decode returns for F frames and
\* raises tells whether this call of model.decode raises.
convert_to_audio(multiframe, count, codec, raises) ==
    LET num_frames == Len(multiframe) \div 7
        c0 == codes_0(multiframe, num_frames)
        c1 == codes_1(multiframe, num_frames)
        c2 == codes_2(multiframe, num_frames)
    IN  IF Len(multiframe) < 7
        THEN [none |-> TRUE, raised |-> FALSE, audio |-> NoChunk]
        ELSE IF out_of_range(c0) \/ out_of_range(c1) \/ out_of_range(c2)
        THEN [none |-> TRUE, raised |-> FALSE, audio |-> NoChunk]
        ELSE IF raises
        THEN [none |-> FALSE, raised |-> TRUE, audio |-> NoChunk]
        ELSE [none |-> FALSE, raised |-> FALSE,
              audio |-> Chunk(count, multiframe, audio_slice(codec[num_frames]))]

\* ------------------------------------------------- streaming scheduler
\* buffer[-n:]
\* (LastNOffByOne: the slice taken one element too long, buffer[-(n + 1):])
LastNOffByOne(buffer, n) ==
    SubSeq(buffer, IF Len(buffer) > n + 1 THEN Len(buffer) - n ELSE 1, Len(buffer))
last_n(buffer, n) ==
    SubSeq(buffer, IF Len(buffer) > n THEN Len(buffer) - n + 1 ELSE 1, Len(buffer))

\* line 138, negated: the token is appended
\* (AcceptedMut: the test written token < 0, so that index 0 is appended)
AcceptedMut(token) == ~token.none /\ token.val >= 0
accepted(token) == ~(token.none \/ token.val <= 0)

\* lines 129-131: the state of one run of tokens_decoder, with the chunks
\* it has yielded (produced), the cache it reads and how it failed
NewDecoder(c) ==
    [buffer |-> <<>>, count |-> 0, first_chunk_sent |-> FALSE,
     produced |-> <<>>, cache |-> c, failure |-> "none"]

\* lines 144-152: the decoding attempt after an accepted token
emit(d, codec, raises) ==
    IF ~d.first_chunk_sent /\ d.count >= MIN_FRAMES_FIRST
    THEN LET audio == convert_to_audio(last_n(d.buffer, MIN_FRAMES_FIRST),
                                       d.count, codec, raises)
         IN  IF audio.raised THEN [d EXCEPT !.failure = "decoder"]
             ELSE IF audio.none THEN d
             ELSE [d EXCEPT !.first_chunk_sent = TRUE,
                            !.produced = Append(@, audio.audio)]
    ELSE IF d.first_chunk_sent /\ d.count % PROCESS_EVERY = 0
    THEN LET audio == convert_to_audio(last_n(d.buffer, MIN_FRAMES_SUBSEQ),
                                       d.count, codec, raises)
         IN  IF audio.raised THEN [d EXCEPT !.failure = "decoder"]
             ELSE IF audio.none THEN d
             ELSE [d EXCEPT !.produced = Append(@, audio.audio)]
    ELSE d

\* lines 136-152: one iteration of the loop of tokens_decoder on token_sim
tokens_decoder(d, token_sim, codec, raises) ==
    LET p == turn_token_into_id(d.cache, token_sim, d.count)
    IN  IF p.raised THEN [d EXCEPT !.failure = "parser"]
        ELSE IF ~accepted(p.ret) THEN [d EXCEPT !.cache = p.cache]
        ELSE emit([d EXCEPT !.cache = p.cache,
                            !.buffer = Append(@, p.ret.val),
                            !.count = @ + 1],
                  codec, raises)

\* --------------------------------------------------------------- state
VARIABLES
    token_id_cache,   \* _token_id_cache, process-wide
    scenario,         \* which family of token streams the request is fed
    consumed,         \* tokens taken from the token stream so far
    odd,              \* tokens taken that were not the plain next token
    valid,            \* tokens taken whose index was in 0..4096
    decoder,          \* buffer, count, first_chunk_sent of tokens_decoder
    worker_pc,        \* where the code running tokens_decoder stands
    audio_queue,      \* audio_queue
    consumer_pc,      \* where the generator tokens_decoder_sync stands
    yielded,          \* the chunks tokens_decoder_sync has yielded
    closed_at,        \* chunks produced when the consumer closed, else -1
    reference,        \* tokens_decoder fed the same stream without its malformed tokens
    parsed,           \* the last call of the parser
    threads,          \* the worker threads of concurrent requests
    results,          \* what the parser calls of those threads returned, per key
    response          \* the body of an HTTP response as sent so far

vars == <<token_id_cache, scenario, consumed, odd, valid, decoder, worker_pc,
          audio_queue, consumer_pc, yielded, closed_at, reference, parsed,
          threads, results, response>>

\* Samples model.decode returns for F frames: the codec contract leaves
\* S >= 2048 for one frame and S >= 4096 for four; the SNAC decoder gives
\* 2048 samples per frame.
SampleChoices(F) ==
    IF F = 1 THEN {2048, 3072, 4096}
    ELSE IF F = 4 THEN {4096, 2048 * F}
    ELSE {2048 * F}
Codecs == {codec \in [1..4 -> {2048, 3072, 4096, 6144, 8192}] :
              \A F \in 1..4 : codec[F] \in SampleChoices(F)}
SnacCodec == [F \in 1..4 |-> 2048 * F]

\* queue.Queue: full() is maxsize > 0 and qsize() >= maxsize; put blocks while full
full(q) == maxsize > 0 /\ Len(q) >= maxsize
\* put appends at the tail (QueuePutMut: at the head, a LIFO queue)
QueuePutMut(q, item) == <<item>> \o q
queue_put(q, item) == Append(q, item)
queue_get(q) == Head(q)
queue_rest(q) == Tail(q)
Sentinel == [none |-> TRUE, audio |-> NoChunk]
Item(audio) == [none |-> FALSE, audio |-> audio]

\* ------------------------------------------------------- token streams
\* the token whose index at the slot of position count is i
TokAt(count, i) == Tok(TOKEN_BASE + (count % 7) * CODEBOOK + i)
\* the plain token at position count: its index there is count + 1
PlainToken(count) == TokAt(count, count + 1)
Garbage == <<"g", "a", "r", "b", "a", "g", "e">>
EmptyDigits == <<CUSTOM_TOKEN_PREFIX, ">">>
NoClose == <<CUSTOM_TOKEN_PREFIX, "1", "1">>
SuperscriptToken == <<CUSTOM_TOKEN_PREFIX, SUPERSCRIPT_TWO, ">">>
Padded(token) == <<" ", "x">> \o token \o <<"\n">>

\* odd tokens: index 0, index 4096, index 5000, not a token at all, digits
\* that int() rejects, a token inside other text
OddTokens(count) ==
    { TokAt(count, 0), TokAt(count, CODEBOOK), TokAt(count, 5000),
      Garbage, SuperscriptToken, Padded(PlainToken(count)) }

\* scenario "zeros": token i is "<custom_token_(10 + (i mod 7) * 4096)>"
ZeroToken(i) == Tok(TOKEN_BASE + (i % 7) * CODEBOOK)

DecoderTokens ==
    IF scenario = "zeros" THEN {ZeroToken(consumed)}
    ELSE {PlainToken(decoder.count)}
         \cup (IF odd < MaxOdd /\ decoder.count < OddUntil
               THEN OddTokens(decoder.count) ELSE {})

BridgeTokens ==
    {PlainToken(decoder.count)}
    \cup (IF odd < MaxOdd /\ decoder.count < OddUntil
          THEN {Garbage, SuperscriptToken} ELSE {})

IsPlain(token) == scenario = "zeros" \/ token = PlainToken(decoder.count)

\* a string the parser of the specification rejects: after trimming it is
\* not "...<custom_token_" digits ">" with a non-empty run of decimal digits
WellFormed(token_string) ==
    LET s == strip(token_string)
    IN  \E i \in 1..(Len(s) - 2) :
            /\ s[i] = CUSTOM_TOKEN_PREFIX
            /\ s[Len(s)] = ">"
            /\ \A j \in (i + 1)..(Len(s) - 1) : IsDecimal(s[j])
Malformed(token_string) == ~WellFormed(token_string)

\* whether the token yields an index that is valid as the specification
\* defines it, 0 <= index <= 4096
ValidIndex(d, token) ==
    LET p == turn_token_into_id(d.cache, token, d.count)
    IN  ~p.raised /\ ~p.ret.none /\ 0 <= p.ret.val /\ p.ret.val <= CODEBOOK

\* whether this iteration reaches model.decode (line 109)
Decodes(d, token) == tokens_decoder(d, token, SnacCodec, TRUE).failure = "decoder"

\* lines 136-152: the next token of the stream goes through one iteration of
\* tokens_decoder; with track, the reference run takes it too unless it is
\* malformed. What model.decode does is chosen when it is called. parsed
\* keeps the call of the parser made at line 137.
Feed(tokens, codecs, track) ==
    \E token \in tokens :
      \E codec \in (IF Decodes(decoder, token) THEN codecs ELSE {SnacCodec}),
         raises \in (IF Decodes(decoder, token) THEN BOOLEAN ELSE {FALSE}) :
        LET d == tokens_decoder(decoder, token, codec, raises)
        IN  /\ decoder' = d
            /\ token_id_cache' = d.cache
            /\ consumed' = consumed + 1
            /\ odd' = IF IsPlain(token) THEN odd ELSE odd + 1
            /\ valid' = IF ValidIndex(decoder, token) THEN valid + 1 ELSE valid
            /\ reference' = IF track /\ ~Malformed(token)
                            THEN tokens_decoder(reference, token, codec, raises)
                            ELSE reference
            /\ parsed' = LET p == turn_token_into_id(decoder.cache, token, decoder.count)
                         IN  [calls |-> consumed + 1, n |-> -1, token_string |-> token,
                              index |-> decoder.count, ret |-> p.ret, raised |-> p.raised]

NoCall == [calls |-> 0, n |-> -1, token_string |-> <<>>, index |-> 0,
           ret |-> None, raised |-> FALSE]

\* no concurrent request, no call of theirs, no HTTP response
NoThreads == <<>>
NoResults == <<>>
NoResponse == [route |-> "", status |-> 0, mimetype |-> "", pc |-> "idle", body |-> <<>>]

\* ------------------------------------------ tokens_decoder_sync (Spec)
Init ==
    /\ token_id_cache = [tab |-> EmptyTab, others |-> 0]
    /\ scenario = "free"
    /\ consumed = 0
    /\ odd = 0
    /\ valid = 0
    /\ decoder = NewDecoder(token_id_cache)
    /\ worker_pc = "next"
    /\ audio_queue = <<>>
    /\ consumer_pc = "get"
    /\ yielded = <<>>
    /\ closed_at = -1
    /\ reference = NewDecoder(token_id_cache)
    /\ parsed = NoCall
    /\ threads = NoThreads
    /\ results = NoResults
    /\ response = NoResponse

\* lines 162-167: the worker thread takes the next token of syn_token_gen
WorkerToken ==
    /\ worker_pc = "next"
    /\ decoder.count < MaxBridgeCount
    /\ Feed(BridgeTokens, {SnacCodec}, FALSE)
    /\ worker_pc' = IF decoder'.failure # "none" THEN "crashed"
                    ELSE IF Len(decoder'.produced) > Len(decoder.produced) THEN "put"
                    ELSE "next"
    /\ UNCHANGED <<scenario, audio_queue, consumer_pc, yielded, closed_at,
                   threads, results, response>>

\* line 168: audio_queue.put(audio_chunk)
WorkerPut ==
    /\ worker_pc = "put"
    /\ ~full(audio_queue)
    /\ audio_queue' = queue_put(audio_queue, Item(decoder.produced[Len(decoder.produced)]))
    /\ worker_pc' = "next"
    /\ UNCHANGED <<token_id_cache, scenario, consumed, odd, valid, decoder, consumer_pc,
                   yielded, closed_at, reference, parsed,
                   threads, results, response>>

\* lines 162, 136, 167: syn_token_gen is exhausted, the loops end
StreamEnd ==
    /\ worker_pc = "next"
    /\ worker_pc' = "sentinel"
    /\ UNCHANGED <<token_id_cache, scenario, consumed, odd, valid, decoder, audio_queue,
                   consumer_pc, yielded, closed_at, reference, parsed,
                   threads, results, response>>

\* line 169: audio_queue.put(None), then the thread ends
WorkerSentinel ==
    /\ worker_pc = "sentinel"
    /\ ~full(audio_queue)
    /\ audio_queue' = queue_put(audio_queue, Sentinel)
    /\ worker_pc' = "done"
    /\ UNCHANGED <<token_id_cache, scenario, consumed, odd, valid, decoder, consumer_pc,
                   yielded, closed_at, reference, parsed,
                   threads, results, response>>

\* lines 178-181: audio_queue.get() returns; a chunk is yielded, None breaks
ConsumerGet ==
    /\ consumer_pc = "get"
    /\ audio_queue # <<>>
    /\ LET audio == queue_get(audio_queue)
       IN  /\ audio_queue' = queue_rest(audio_queue)
           /\ IF audio.none
              THEN consumer_pc' = "join" /\ yielded' = yielded
              ELSE consumer_pc' = "yield" /\ yielded' = Append(yielded, audio.audio)
    /\ UNCHANGED <<token_id_cache, scenario, consumed, odd, valid, decoder, worker_pc,
                   closed_at, reference, parsed,
                   threads, results, response>>

\* line 181 -> 178: the caller asks for the next chunk
ConsumerResume ==
    /\ consumer_pc = "yield"
    /\ consumer_pc' = "get"
    /\ UNCHANGED <<token_id_cache, scenario, consumed, odd, valid, decoder, worker_pc,
                   audio_queue, yielded, closed_at, reference, parsed,
                   threads, results, response>>

\* line 181: the caller closes the generator instead (GeneratorExit at the
\* yield; nothing catches it and line 183 is not reached)
ConsumerClose ==
    /\ consumer_pc = "yield"
    /\ consumer_pc' = "closed"
    /\ closed_at' = Len(decoder.produced)
    /\ UNCHANGED <<token_id_cache, scenario, consumed, odd, valid, decoder, worker_pc,
                   audio_queue, yielded, reference, parsed,
                   threads, results, response>>

\* line 183: thread.join() returns once the worker thread has ended
ConsumerJoin ==
    /\ consumer_pc = "join"
    /\ worker_pc \in {"done", "crashed"}
    /\ consumer_pc' = "done"
    /\ UNCHANGED <<token_id_cache, scenario, consumed, odd, valid, decoder, worker_pc,
                   audio_queue, yielded, closed_at, reference, parsed,
                   threads, results, response>>

Next ==
    \/ WorkerToken
    \/ WorkerPut
    \/ StreamEnd
    \/ WorkerSentinel
    \/ ConsumerGet
    \/ ConsumerResume
    \/ ConsumerClose
    \/ ConsumerJoin

Spec == Init /\ [][Next]_vars

\* -------------------------------------- tokens_decoder (DecoderSpec)
\* tokens_decoder iterated directly: every chunk it yields is taken at once
DecoderInit ==
    /\ token_id_cache \in {[tab |-> EmptyTab, others |-> o] : o \in {0, MAX_CACHE_SIZE}}
    /\ scenario \in {"free", "zeros"}
    /\ consumed = 0
    /\ odd = 0
    /\ valid = 0
    /\ decoder = NewDecoder(token_id_cache)
    /\ worker_pc = "next"
    /\ audio_queue = <<>>
    /\ consumer_pc = "get"
    /\ yielded = <<>>
    /\ closed_at = -1
    /\ reference = NewDecoder(token_id_cache)
    /\ parsed = NoCall
    /\ threads = NoThreads
    /\ results = NoResults
    /\ response = NoResponse

\* lines 136-152
DecoderToken ==
    /\ worker_pc = "next"
    /\ decoder.count < MaxCount
    /\ consumed < MaxCount + MaxOdd
    /\ Feed(DecoderTokens, Codecs, TRUE)
    /\ worker_pc' = IF decoder'.failure # "none" THEN "crashed" ELSE "next"
    /\ UNCHANGED <<scenario, audio_queue, consumer_pc, yielded, closed_at,
                   threads, results, response>>

\* line 136: token_gen is exhausted
DecoderEnd ==
    /\ worker_pc = "next"
    /\ worker_pc' = "done"
    /\ UNCHANGED <<token_id_cache, scenario, consumed, odd, valid, decoder, audio_queue,
                   consumer_pc, yielded, closed_at, reference, parsed,
                   threads, results, response>>

DecoderNext == DecoderToken \/ DecoderEnd

DecoderSpec == DecoderInit /\ [][DecoderNext]_vars

\* ------------------------------------ turn_token_into_id (ParserSpec)
\* the inputs of a call at position index: tokens whose index at that slot
\* is 0, 1, 4096, 4097 and 4 * 4096 + 1, a token inside other text, and
\* strings that are no token
ParserInputs(index) ==
    {[n |-> TOKEN_BASE + (index % 7) * CODEBOOK + i,
      token_string |-> TokAt(index, i)] : i \in {0, 1, CODEBOOK, CODEBOOK + 1, 4 * CODEBOOK + 1}}
    \cup {[n |-> TOKEN_BASE + 1, token_string |-> Padded(Tok(TOKEN_BASE + 1))]}
    \cup {[n |-> -1, token_string |-> t] :
            t \in {Garbage, EmptyDigits, NoClose, SuperscriptToken}}

ParserInit ==
    /\ token_id_cache \in {[tab |-> EmptyTab, others |-> o] :
                             o \in {0, MAX_CACHE_SIZE - 1, MAX_CACHE_SIZE}}
    /\ scenario = "parser"
    /\ consumed = 0
    /\ odd = 0
    /\ valid = 0
    /\ decoder = NewDecoder(token_id_cache)
    /\ worker_pc = "next"
    /\ audio_queue = <<>>
    /\ consumer_pc = "get"
    /\ yielded = <<>>
    /\ closed_at = -1
    /\ reference = NewDecoder(token_id_cache)
    /\ parsed = NoCall
    /\ threads = NoThreads
    /\ results = NoResults
    /\ response = NoResponse

\* one call turn_token_into_id(token_string, index)
ParserCall ==
    /\ parsed.calls < MaxCalls
    /\ \E index \in 0..MaxPos : \E in \in ParserInputs(index) :
          LET r == turn_token_into_id(token_id_cache, in.token_string, index)
          IN  /\ token_id_cache' = r.cache
              /\ parsed' = [calls |-> parsed.calls + 1, n |-> in.n,
                            token_string |-> in.token_string, index |-> index,
                            ret |-> r.ret, raised |-> r.raised]
    /\ UNCHANGED <<scenario, consumed, odd, valid, decoder, worker_pc, audio_queue,
                   consumer_pc, yielded, closed_at, reference,
                   threads, results, response>>

ParserNext == ParserCall

ParserSpec == ParserInit /\ [][ParserNext]_vars

\* ----------------------------- concurrent requests (ThreadsSpec)
\* main.py:129 serves every request on a thread of its own, and every
\* request starts a worker thread (lines 171-175) that runs tokens_decoder
\* on its token stream: the worker threads share _token_id_cache and model.
Threads == {1, 2}

\* lines 129-131, for a worker thread: the thread reads token_id_cache, the
\* cache field of its scheduler state is not used. pending and ret hold
\* a call of the parser that has still to write the cache, taken counts the
\* tokens the thread has taken from its stream, odd those that are no token.
NewThread ==
    [pc |-> "next", d |-> NewDecoder([tab |-> EmptyTab, others |-> 0]),
     odd |-> 0, taken |-> 0, pending |-> <<>>, ret |-> None]

\* The stream of thread t: the plain tokens, inside other text for thread 2
\* in scenario "other" (other cache keys than thread 1), and before the
\* first token a string that is no token.
ThreadTokens(t) ==
    {IF t = 2 /\ scenario = "other"
     THEN Padded(PlainToken(threads[t].d.count))
     ELSE PlainToken(threads[t].d.count)}
    \cup (IF threads[t].odd < MaxOdd /\ threads[t].d.count = 0 THEN {Garbage} ELSE {})

\* lines 35-64 of a call up to the write of the cache: the look-up and, on
\* a miss, the result and the test len(_token_id_cache) < _MAX_CACHE_SIZE;
\* pending is the entry that the test lets the call write next.
lookup(c, token_string, index) ==
    LET r == turn_token_into_id(c, token_string, index)
    IN  [ret |-> r.ret, raised |-> r.raised,
         pending |-> [key \in DOMAIN r.cache.tab \ DOMAIN c.tab |-> r.cache.tab[key]]]

\* line 46, 53, 59 or 65: _token_id_cache[cache_key] = ..., on the cache
\* as it is by then
store(c, pending) == [c EXCEPT !.tab = pending @@ @]

\* lines 138-152 after the parser has returned ret, up to the call of
\* model.decode (line 109) if the attempt reaches it
after_parse(th, ret) ==
    IF ~accepted(ret) THEN [th EXCEPT !.pc = "next"]
    ELSE LET d == [th.d EXCEPT !.buffer = Append(@, ret.val), !.count = @ + 1]
         IN  IF emit(d, SnacCodec, TRUE).failure = "decoder"
             THEN [th EXCEPT !.d = d, !.pc = "decode"]
             ELSE [th EXCEPT !.d = emit(d, SnacCodec, FALSE), !.pc = "next"]

ThreadsInit ==
    /\ token_id_cache \in {[tab |-> EmptyTab, others |-> o] :
                             o \in {0, MAX_CACHE_SIZE - 1, MAX_CACHE_SIZE}}
    /\ scenario \in {"same", "other"}
    /\ consumed = 0
    /\ odd = 0
    /\ valid = 0
    /\ decoder = NewDecoder(token_id_cache)
    /\ worker_pc = "next"
    /\ audio_queue = <<>>
    /\ consumer_pc = "get"
    /\ yielded = <<>>
    /\ closed_at = -1
    /\ reference = NewDecoder(token_id_cache)
    /\ parsed = NoCall
    /\ threads = [t \in Threads |-> NewThread]
    /\ results = NoResults
    /\ response = NoResponse

\* lines 136-137 and 35-64: thread t takes its next token and calls the
\* parser, which returns at once or is left with the cache to write
ThreadLookup(t) ==
    /\ threads[t].pc = "next"
    /\ threads[t].d.count < MaxThreadCount
    /\ \E token \in ThreadTokens(t) :
         LET r == lookup(token_id_cache, token, threads[t].d.count)
             key == <<token, threads[t].d.count % 7>>
             outcome == [ret |-> r.ret, raised |-> r.raised]
             th == [threads[t] EXCEPT !.odd = IF token = Garbage THEN @ + 1 ELSE @,
                                      !.taken = @ + 1]
         IN  /\ results' = IF key \in DOMAIN results
                           THEN [results EXCEPT ![key] = Append(@, outcome)]
                           ELSE (key :> <<outcome>>) @@ results
             /\ threads' = [threads EXCEPT ![t] =
                   IF r.raised
                   THEN [th EXCEPT !.pc = "crashed", !.d.failure = "parser"]
                   ELSE IF DOMAIN r.pending # {}
                   THEN [th EXCEPT !.pc = "store", !.pending = r.pending, !.ret = r.ret]
                   ELSE after_parse(th, r.ret)]
    /\ UNCHANGED <<token_id_cache, scenario, consumed, odd, valid, decoder, worker_pc,
                   audio_queue, consumer_pc, yielded, closed_at, reference, parsed,
                   response>>

\* line 46, 53, 59 or 65, then the return of the parser to tokens_decoder
ThreadStore(t) ==
    /\ threads[t].pc = "store"
    /\ token_id_cache' = store(token_id_cache, threads[t].pending)
    /\ threads' = [threads EXCEPT ![t] =
          after_parse([threads[t] EXCEPT !.pending = <<>>, !.ret = None], threads[t].ret)]
    /\ UNCHANGED <<scenario, consumed, odd, valid, decoder, worker_pc,
                   audio_queue, consumer_pc, yielded, closed_at, reference, parsed,
                   results, response>>

\* lines 109-117 and 147-152: model.decode returns or raises to thread t
ThreadDecode(t) ==
    /\ threads[t].pc = "decode"
    /\ \E raises \in BOOLEAN :
         threads' = [threads EXCEPT ![t] =
            [@ EXCEPT !.d = emit(threads[t].d, SnacCodec, raises),
                      !.pc = IF raises THEN "crashed" ELSE "next"]]
    /\ UNCHANGED <<token_id_cache, scenario, consumed, odd, valid, decoder, worker_pc,
                   audio_queue, consumer_pc, yielded, closed_at, reference, parsed,
                   results, response>>

\* line 136: the token stream of thread t is exhausted
ThreadEnd(t) ==
    /\ threads[t].pc = "next"
    /\ threads' = [threads EXCEPT ![t].pc = "done"]
    /\ UNCHANGED <<token_id_cache, scenario, consumed, odd, valid, decoder, worker_pc,
                   audio_queue, consumer_pc, yielded, closed_at, reference, parsed,
                   results, response>>

ThreadsNext ==
    \E t \in Threads :
        \/ ThreadLookup(t)
        \/ ThreadStore(t)
        \/ ThreadDecode(t)
        \/ ThreadEnd(t)

ThreadsSpec == ThreadsInit /\ [][ThreadsNext]_vars

\* ------------------------------------------- HTTP routes (HttpSpec)
\* struct.calcsize of one field of the format '<4sI4s4sIHHIIHH4sI'
calcsize(fmt) == IF fmt = "H" THEN 2 ELSE 4

Field(fmt, tag, val) == [fmt |-> fmt, tag |-> tag, val |-> val]

\* (WavHeaderNoDataChunk: the header packed without its 'data' chunk header)
WavHeaderNoDataChunk(sample_rate, bits_per_sample, channels) ==
    LET byte_rate == (sample_rate * channels * bits_per_sample) \div 8
        block_align == (channels * bits_per_sample) \div 8
        data_size == 0
    IN  << Field("4s", "RIFF", 0), Field("I", "", 36 + data_size),
           Field("4s", "WAVE", 0), Field("4s", "fmt ", 0), Field("I", "", 16),
           Field("H", "", 1), Field("H", "", channels), Field("I", "", sample_rate),
           Field("I", "", byte_rate), Field("H", "", block_align),
           Field("H", "", bits_per_sample) >>

\* main.py lines 8-30: the fields struct.pack lays out, little-endian and
\* without padding
create_wav_header(sample_rate, bits_per_sample, channels) ==
    LET byte_rate == (sample_rate * channels * bits_per_sample) \div 8
        block_align == (channels * bits_per_sample) \div 8
        data_size == 0
    IN  << Field("4s", "RIFF", 0), Field("I", "", 36 + data_size),
           Field("4s", "WAVE", 0), Field("4s", "fmt ", 0), Field("I", "", 16),
           Field("H", "", 1), Field("H", "", channels), Field("I", "", sample_rate),
           Field("I", "", byte_rate), Field("H", "", block_align),
           Field("H", "", bits_per_sample),
           Field("4s", "data", 0), Field("I", "", data_size) >>

RECURSIVE packed_len(_)
packed_len(fields) ==
    IF fields = <<>> THEN 0 ELSE calcsize(Head(fields).fmt) + packed_len(Tail(fields))

\* What a response body is made of: a packed header as the bytes it is (a
\* WAV header if it opens with RIFF ... WAVE, with the size its last field
\* declares for the data), a chunk of PCM bytes, or a text.
Packed(fields) ==
    [kind |-> IF Len(fields) >= 3 /\ fields[1].tag = "RIFF" /\ fields[3].tag = "WAVE"
              THEN "wav_header" ELSE "bytes",
     nbytes |-> packed_len(fields),
     data_size |-> IF fields # <<>> /\ fields[Len(fields)].fmt = "I"
                   THEN fields[Len(fields)].val ELSE -1]
Pcm(nbytes) == [kind |-> "pcm", nbytes |-> nbytes, data_size |-> -1]
Text == [kind |-> "text", nbytes |-> 22, data_size |-> -1]

\* the chunks engine.generate_speech yields: int16 samples, 2 bytes each,
\* of the slices convert_to_audio can cut
ChunkBytes == {2 * audio_slice(S) : S \in {2048, 3072, 4096, 8192}}

HttpInit ==
    /\ token_id_cache = [tab |-> EmptyTab, others |-> 0]
    /\ scenario = "http"
    /\ consumed = 0
    /\ odd = 0
    /\ valid = 0
    /\ decoder = NewDecoder(token_id_cache)
    /\ worker_pc = "next"
    /\ audio_queue = <<>>
    /\ consumer_pc = "get"
    /\ yielded = <<>>
    /\ closed_at = -1
    /\ reference = NewDecoder(token_id_cache)
    /\ parsed = NoCall
    /\ threads = NoThreads
    /\ results = NoResults
    /\ response = NoResponse

\* main.py lines 32-52: GET /tts answers with the generator of lines 37-50
tts ==
    /\ response.pc = "idle"
    /\ response' = [route |-> "/tts", status |-> 200, mimetype |-> "audio/wav",
                    pc |-> "header", body |-> <<>>]
    /\ UNCHANGED <<token_id_cache, scenario, consumed, odd, valid, decoder, worker_pc,
                   audio_queue, consumer_pc, yielded, closed_at, reference, parsed,
                   threads, results>>

\* main.py lines 54-77: POST /v1/audio/speech/stream answers 400 without a
\* JSON body, else with the generator of lines 63-75
tts_stream ==
    /\ response.pc = "idle"
    /\ \E data \in BOOLEAN :
         response' = IF ~data
                     THEN [route |-> "/v1/audio/speech/stream", status |-> 400,
                           mimetype |-> "text/plain", pc |-> "done", body |-> <<Text>>]
                     ELSE [route |-> "/v1/audio/speech/stream", status |-> 200,
                           mimetype |-> "audio/pcm", pc |-> "chunks", body |-> <<>>]
    /\ UNCHANGED <<token_id_cache, scenario, consumed, odd, valid, decoder, worker_pc,
                   audio_queue, consumer_pc, yielded, closed_at, reference, parsed,
                   threads, results>>

\* main.py line 38: yield create_wav_header()
HttpHeader ==
    /\ response.pc = "header"
    /\ response' = [response EXCEPT
                      !.body = Append(@, Packed(create_wav_header(24000, 16, 1))),
                      !.pc = "chunks"]
    /\ UNCHANGED <<token_id_cache, scenario, consumed, odd, valid, decoder, worker_pc,
                   audio_queue, consumer_pc, yielded, closed_at, reference, parsed,
                   threads, results>>

\* main.py lines 49-50 and 74-75: yield chunk
HttpChunk ==
    /\ response.pc = "chunks"
    /\ Cardinality({i \in 1..Len(response.body) : response.body[i].kind = "pcm"}) < MaxChunks
    /\ \E nbytes \in ChunkBytes :
         response' = [response EXCEPT !.body = Append(@, Pcm(nbytes))]
    /\ UNCHANGED <<token_id_cache, scenario, consumed, odd, valid, decoder, worker_pc,
                   audio_queue, consumer_pc, yielded, closed_at, reference, parsed,
                   threads, results>>

\* main.py lines 49 and 74: syn_tokens is exhausted
HttpEnd ==
    /\ response.pc = "chunks"
    /\ response' = [response EXCEPT !.pc = "done"]
    /\ UNCHANGED <<token_id_cache, scenario, consumed, odd, valid, decoder, worker_pc,
                   audio_queue, consumer_pc, yielded, closed_at, reference, parsed,
                   threads, results>>

HttpNext == tts \/ tts_stream \/ HttpHeader \/ HttpChunk \/ HttpEnd

HttpSpec == HttpInit /\ [][HttpNext]_vars

\* ----------------------------------- long requests (LongSpec)
\* tokens_decoder on streams long enough for the sliding window to leave
\* an index behind: plain tokens and, early in the stream, tokens whose
\* index at their slot is 5000
LongTokens ==
    {PlainToken(decoder.count)}
    \cup (IF odd < MaxOdd /\ decoder.count < OddUntil
          THEN {TokAt(decoder.count, 5000)} ELSE {})

LongInit ==
    /\ token_id_cache = [tab |-> EmptyTab, others |-> 0]
    /\ scenario = "free"
    /\ consumed = 0
    /\ odd = 0
    /\ valid = 0
    /\ decoder = NewDecoder(token_id_cache)
    /\ worker_pc = "next"
    /\ audio_queue = <<>>
    /\ consumer_pc = "get"
    /\ yielded = <<>>
    /\ closed_at = -1
    /\ reference = NewDecoder(token_id_cache)
    /\ parsed = NoCall
    /\ threads = NoThreads
    /\ results = NoResults
    /\ response = NoResponse

\* lines 136-152
LongToken ==
    /\ worker_pc = "next"
    /\ decoder.count < MaxLongCount
    /\ Feed(LongTokens, {SnacCodec}, FALSE)
    /\ worker_pc' = IF decoder'.failure # "none" THEN "crashed" ELSE "next"
    /\ UNCHANGED <<scenario, audio_queue, consumer_pc, yielded, closed_at,
                   threads, results, response>>

\* line 136: token_gen is exhausted
LongEnd ==
    /\ worker_pc = "next"
    /\ worker_pc' = "done"
    /\ UNCHANGED <<token_id_cache, scenario, consumed, odd, valid, decoder, audio_queue,
                   consumer_pc, yielded, closed_at, reference, parsed,
                   threads, results, response>>

LongNext == LongToken \/ LongEnd

LongSpec == LongInit /\ [][LongNext]_vars

\* ---------------------------------------------------------------- claims
AllAtMost4096(buffer) == \A i \in 1..Len(buffer) : buffer[i] <= CODEBOOK

\* C1 as stated: once the stream has yielded K >= 7 indices that are valid
\* as the specification defines it (0 <= index <= 4096), tokens_decoder has
\* emitted exactly 1 + max(0, floor(K/7) - 1) chunks.
ClaimC1 ==
    (valid >= 7 /\ decoder.failure = "none")
        => Len(decoder.produced) = 1 + (IF valid \div 7 > 1 THEN valid \div 7 - 1 ELSE 0)

\* C1 amended: index 0 is rejected and not counted. As long as every
\* accepted index is <= 4096 and the decoder has not raised, K accepted
\* indices have made tokens_decoder emit exactly floor(K/7) chunks, the k-th
\* one upon accepting the (7k)-th index.
TheoremC1 ==
    (AllAtMost4096(decoder.buffer) /\ decoder.failure # "decoder")
        => /\ Len(decoder.produced) = decoder.count \div 7
           /\ \A k \in 1..Len(decoder.produced) : decoder.produced[k].count = 7 * k

\* four chunks, at counts 7, 14, 21 and 28, one of the indices being 4096
WitnessC1 ==
    /\ decoder.count = 28
    /\ Len(decoder.produced) = 4
    /\ AllAtMost4096(decoder.buffer)
    /\ \E i \in 1..Len(decoder.buffer) : decoder.buffer[i] = CODEBOOK

\* C2 as stated: every chunk emitted holds 2048 samples (4096 bytes),
\* the first one, decoded from one frame, included.
ClaimC2 ==
    \A k \in 1..Len(decoder.produced) :
        decoder.produced[k].samples = SLICE_TO - SLICE_FROM

\* C3 as stated: the seven tokens <custom_token_10>, <custom_token_4106>,
\* ..., <custom_token_24586> make tokens_decoder emit exactly one chunk.
ClaimC3 ==
    (scenario = "zeros" /\ consumed = 7 /\ decoder.failure = "none")
        => Len(decoder.produced) = 1

\* C3 amended: a token whose index is 0 is rejected, neither appended nor
\* counted. Of those seven tokens the first is rejected, the other six are
\* parsed one slot early, each as index 4096, and no chunk is emitted; no
\* buffer ever holds an index 0.
TheoremC3 ==
    /\ \A i \in 1..Len(decoder.buffer) : decoder.buffer[i] > 0
    /\ (scenario = "zeros" /\ consumed >= 1)
          => /\ decoder.produced = <<>>
             /\ decoder.count = (IF consumed <= 7 THEN consumed - 1 ELSE 6)
             /\ \A i \in 1..Len(decoder.buffer) : decoder.buffer[i] = CODEBOOK

WitnessC3 ==
    /\ scenario = "zeros"
    /\ consumed = 7
    /\ worker_pc = "done"
    /\ decoder.count = 6

\* C9 as stated: a stream with malformed tokens interleaved gives what the
\* same stream without them gives: the same chunks, ending the same way.
ClaimC9 ==
    /\ decoder.produced = reference.produced
    /\ decoder.failure = reference.failure

\* C4 as stated: when the decoder call raises, the consumer of
\* tokens_decoder_sync is not left blocked on the handoff queue: no state has
\* the worker dead of a decoder failure, the queue drained and the consumer
\* still waiting in audio_queue.get().
ClaimC4 ==
    ~ /\ decoder.failure = "decoder"
      /\ worker_pc = "crashed"
      /\ audio_queue = <<>>
      /\ consumer_pc = "get"

\* C5 as stated: once the consumer has closed the generator, the worker
\* makes at most one more codec invocation.
ClaimC5 ==
    consumer_pc = "closed" => Len(decoder.produced) - closed_at <= 1

\* C6 as stated: the handoff queue is bounded: it never holds more items
\* than the capacity it was built with.
ClaimC6 == Len(audio_queue) <= maxsize

\* the chunks of the items of a queue, the sentinel left out
RECURSIVE Chunks(_)
Chunks(q) ==
    IF q = <<>> THEN <<>>
    ELSE IF Head(q).none THEN Chunks(Tail(q))
    ELSE <<Head(q).audio>> \o Chunks(Tail(q))

\* the chunk tokens_decoder has yielded and the worker has not yet put
Pending ==
    IF worker_pc = "put" THEN <<decoder.produced[Len(decoder.produced)]>> ELSE <<>>

\* C7: in every interleaving, what tokens_decoder_sync has yielded, followed
\* by what waits in the queue and by the chunk about to be put, is what
\* tokens_decoder has produced, in that order; the sentinel is the last item
\* of the queue, and once it has been taken everything produced has been
\* yielded and the queue is empty.
TheoremC7 ==
    /\ yielded \o Chunks(audio_queue) \o Pending = decoder.produced
    /\ \A i \in 1..Len(audio_queue) : audio_queue[i].none => i = Len(audio_queue)
    /\ consumer_pc \in {"join", "done"}
          => (yielded = decoder.produced /\ audio_queue = <<>>)

\* three chunks yielded, the sentinel received, the worker joined
WitnessC7 ==
    /\ consumer_pc = "done"
    /\ Len(yielded) = 3
    /\ yielded[1] # yielded[2]

\* C8 as stated: unless the decoder raises, the worker thread ends only by
\* posting the sentinel after its last chunk.
ClaimC8 ==
    decoder.failure # "decoder" => worker_pc # "crashed"

InRangeN(n, index) ==
    /\ n > TOKEN_BASE + (index % 7) * CODEBOOK
    /\ n <= TOKEN_BASE + (index % 7) * CODEBOOK + CODEBOOK

\* C10 as stated: a well-formed token <custom_token_N> with
\* N > 10 + 4 * 4096 + (p mod 7) * 4096 parses at position p to a value in
\* (0, 4096].
ClaimC10 ==
    (parsed.calls > 0 /\ parsed.n > 10 + 4 * 4096 + (parsed.index % 7) * 4096)
        => /\ ~parsed.raised
           /\ ~parsed.ret.none
           /\ 0 < parsed.ret.val /\ parsed.ret.val <= 4096

\* C10 amended: a well-formed token <custom_token_N> with
\* 10 + (p mod 7) * 4096 < N <= 10 + (p mod 7) * 4096 + 4096 parses at
\* position p to N - 10 - (p mod 7) * 4096, a value in (0, 4096].
TheoremC10 ==
    (parsed.calls > 0 /\ InRangeN(parsed.n, parsed.index))
        => /\ ~parsed.raised
           /\ ~parsed.ret.none
           /\ parsed.ret.val = parsed.n - 10 - (parsed.index % 7) * 4096
           /\ 0 < parsed.ret.val /\ parsed.ret.val <= 4096

\* the largest such N at a position past the first frame, parsed a second time
WitnessC10 ==
    /\ parsed.calls = 2
    /\ parsed.index = 7
    /\ InRangeN(parsed.n, parsed.index)
    /\ parsed.ret.val = CODEBOOK
    /\ token_id_cache.others = 0
    /\ Cardinality(DOMAIN token_id_cache.tab) = 1

\* the stream of C11 as tokens_decoder has taken it in: 14 accepted
\* indices, the one at position 8 being 5000, the others within 1..4096
OutOfRangeMidWindow(d) ==
    /\ d.count = 14
    /\ d.buffer[9] = 5000
    /\ \A i \in 1..14 : i # 9 => (0 < d.buffer[i] /\ d.buffer[i] <= CODEBOOK)

\* C11: for 14 accepted indices whose index at position 8 is 5000 and
\* whose other indices lie in 1..4096, the first chunk is emitted at
\* count = 7 from the first frame, the attempt at count = 14 is rejected by
\* the range check, so exactly one chunk has been emitted, and the rejected
\* attempt changes no scheduler state (buffer, count, first-chunk flag,
\* chunks emitted), whatever the codec would have returned.
TheoremC11 ==
    OutOfRangeMidWindow(decoder)
        => /\ Len(decoder.produced) = 1
           /\ decoder.produced[1].count = 7
           /\ decoder.produced[1].window = SubSeq(decoder.buffer, 1, 7)
           /\ decoder.first_chunk_sent
           /\ decoder.failure # "decoder"
           /\ \A codec \in Codecs, raises \in BOOLEAN :
                 emit(decoder, codec, raises) = decoder

\* that request has ended after its 14th accepted token, with one chunk
WitnessC11 ==
    /\ OutOfRangeMidWindow(decoder)
    /\ worker_pc = "done"
    /\ Len(decoder.produced) = 1

\* C12: chunks are emitted only in reaction to an accepted token, the end
\* of the stream emits nothing, and a stream with fewer than 7 accepted
\* indices (the empty stream and the exactly-6 case included) emits zero
\* chunks and terminates successfully: no step but the acceptance of a
\* token adds a chunk, and while count < 7 no chunk has been emitted and
\* tokens_decoder has not failed.
ClaimC12 ==
    [][/\ Len(decoder'.produced) > Len(decoder.produced)
            => decoder'.count = decoder.count + 1
       /\ decoder'.count < 7
            => (decoder'.produced = <<>> /\ decoder'.failure = "none")]_vars

\* C13: parsing is idempotent in (token_string, slot): all the calls of
\* turn_token_into_id made with the same token string at positions equal
\* mod 7 have returned the same result, whatever the cache held at each
\* call (miss, hit, full) and however the calls of the two worker threads
\* interleaved.
TheoremC13 ==
    \A key \in DOMAIN results :
        \A i, j \in 1..Len(results[key]) : results[key][i] = results[key][j]

\* both threads have parsed the same token at the same slot, the cache
\* holds its index by now and both calls returned that index
WitnessC13 ==
    \E key \in DOMAIN results :
        /\ Len(results[key]) = 2
        /\ ~results[key][1].ret.none
        /\ <<strip(key[1]), key[2]>> \in DOMAIN token_id_cache.tab
        /\ results[key][2].ret = token_id_cache.tab[<<strip(key[1]), key[2]>>]

\* C14: in every reachable state, interleaved calls of concurrent request
\* threads included, the cache holds at most 25,000 entries; once it holds
\* 25,000 nothing is inserted; no entry is ever removed or changed to
\* another value.
ClaimC14 ==
    [][/\ cache_len(token_id_cache') <= MAX_CACHE_SIZE
       /\ cache_len(token_id_cache) >= MAX_CACHE_SIZE
            => token_id_cache' = token_id_cache
       /\ token_id_cache'.others = token_id_cache.others
       /\ \A key \in DOMAIN token_id_cache.tab :
            /\ key \in DOMAIN token_id_cache'.tab
            /\ token_id_cache'.tab[key] = token_id_cache.tab[key]]_vars

\* C15: no reachable state has two worker threads inside model.decode at
\* the same time.
ClaimC15 ==
    Cardinality({t \in DOMAIN threads : threads[t].pc = "decode"}) <= 1

\* the body opens with one 44-byte WAV header declaring data_size 0 and
\* holds PCM chunks only after it
OneHeaderFirst(body) ==
    /\ Len(body) >= 1
    /\ body[1].kind = "wav_header"
    /\ body[1].nbytes = 44
    /\ body[1].data_size = 0
    /\ \A i \in 2..Len(body) : body[i].kind = "pcm"

\* C16 as stated: on both routes, every audio response starts with exactly
\* one 44-byte WAV header declaring data_size 0, before any PCM chunk and
\* never again.
ClaimC16 ==
    (response.status = 200 /\ (response.body # <<>> \/ response.pc = "done"))
        => OneHeaderFirst(response.body)

\* C16 amended: every /tts response starts with exactly one 44-byte WAV
\* header declaring data_size 0, sent before any PCM chunk and never again;
\* a /v1/audio/speech/stream response (audio/pcm) holds PCM chunks only and
\* no header.
TheoremC16 ==
    /\ (response.route = "/tts" /\ response.pc = "header") => response.body = <<>>
    /\ (response.route = "/tts" /\ response.pc \in {"chunks", "done"})
            => OneHeaderFirst(response.body)
    /\ (response.route = "/v1/audio/speech/stream" /\ response.status = 200)
            => \A i \in 1..Len(response.body) : response.body[i].kind = "pcm"

\* a finished /tts response: the header, then three PCM chunks
WitnessC16 ==
    /\ response.route = "/tts"
    /\ response.pc = "done"
    /\ Len(response.body) = 4
    /\ response.body[1].kind = "wav_header"
    /\ response.body[4].kind = "pcm"

\* C17: the first emission decodes the most recent 7 indices; every later
\* decoder invocation happens only when count is a multiple of 7 and
\* count >= 28, and decodes exactly the most recent 28 indices, so no
\* invocation after the first emission uses a window of 2 or 3 frames.
ClaimC17 ==
    /\ Len(decoder.produced) >= 1 => Len(decoder.produced[1].window) = 7
    /\ \A k \in 2..Len(decoder.produced) :
          /\ decoder.produced[k].count % 7 = 0
          /\ decoder.produced[k].count >= 28
          /\ Len(decoder.produced[k].window) = 28

\* C18: every window handed to convert_to_audio is frame-aligned, also
\* when the first attempt at count = 7 was rejected and the first chunk is
\* attempted again on later tokens: its length is a positive multiple of 7
\* and its first element stands at a buffer offset that is a multiple of 7
\* (so that element j of the window was parsed with slot j mod 7).
ClaimC18 ==
    \A k \in 1..Len(decoder.produced) :
        LET chunk == decoder.produced[k]
        IN  /\ Len(chunk.window) > 0
            /\ Len(chunk.window) % 7 = 0
            /\ (chunk.count - Len(chunk.window)) % 7 = 0

\* C19: a token that is not accepted (malformed string, or parsed index
\* <= 0) leaves count, buffer and the first-chunk flag as they were, makes
\* no decoder call and emits no chunk, so the next token is parsed with the
\* same slot; an accepted token is parsed at position count, appends
\* exactly its index at the tail of the buffer and adds one to count. So
\* len(buffer) = count always and earlier entries never change.
TheoremC19 ==
    [][consumed' = consumed + 1
         => /\ parsed'.index = decoder.count
            /\ Len(decoder'.buffer) = decoder'.count
            /\ SubSeq(decoder'.buffer, 1, decoder.count) = decoder.buffer
            /\ IF parsed'.raised \/ parsed'.ret.none \/ parsed'.ret.val <= 0
               THEN /\ decoder'.count = decoder.count
                    /\ decoder'.buffer = decoder.buffer
                    /\ decoder'.first_chunk_sent = decoder.first_chunk_sent
                    /\ decoder'.produced = decoder.produced
                    /\ decoder'.failure # "decoder"
               ELSE /\ decoder'.count = decoder.count + 1
                    /\ decoder'.buffer = Append(decoder.buffer, parsed'.ret.val)]_vars

\* the token just taken had index 0 and was not accepted: count is still 7
\* after 8 tokens, the one chunk of count 7 is all that was emitted
WitnessC19 ==
    /\ parsed.calls = consumed
    /\ ~parsed.ret.none /\ parsed.ret.val = 0
    /\ consumed = 8
    /\ decoder.count = 7
    /\ Len(decoder.buffer) = 7
    /\ Len(decoder.produced) = 1

\* a chunk was emitted at count c
EmittedAt(c) == \E k \in 1..Len(decoder.produced) : decoder.produced[k].count = c

\* buffer positions first..last hold no index > 4096
CleanBetween(first, last) ==
    \A i \in first..last : i >= 1 => decoder.buffer[i] <= CODEBOOK

\* C20: after the first chunk has been emitted, an accepted index > 4096
\* in frame f suppresses the emission at every frame boundary whose window
\* (the last 28 indices) contains frame f, and emission resumes at the
\* first boundary whose window no longer contains it: at the boundaries
\* 7f .. 7(f+3) no chunk is emitted, at most 4 in a row for that index, and
\* at each boundary after the first chunk a chunk is emitted exactly if the
\* window holds no index > 4096 (unless model.decode itself raised there).
TheoremC20 ==
    decoder.first_chunk_sent =>
        LET first == decoder.produced[1].count
            decided(c) == c < decoder.count \/ decoder.failure # "decoder"
        IN  /\ \A c \in (first + 1)..decoder.count :
                  (c % 7 = 0 /\ decided(c))
                      => (EmittedAt(c) <=> CleanBetween(c - 27, c))
            /\ \A i \in (first + 1)..decoder.count :
                  decoder.buffer[i] > CODEBOOK
                      => LET f == ((i - 1) \div 7) + 1
                         IN  /\ \A k \in f..(f + 3) :
                                   7 * k <= decoder.count => ~EmittedAt(7 * k)
                             /\ (/\ 7 * (f + 4) <= decoder.count
                                 /\ decided(7 * (f + 4))
                                 /\ CleanBetween(7 * f + 1, 7 * (f + 4)))
                                   => EmittedAt(7 * (f + 4))

\* index 5000 accepted in the second frame after the chunk of count 7: no
\* chunk at counts 14, 21, 28 and 35, and the next chunk at count 42
WitnessC20 ==
    /\ decoder.count = 42
    /\ \E i \in 8..14 : decoder.buffer[i] = 5000
    /\ Len(decoder.produced) = 2
    /\ decoder.produced[1].count = 7
    /\ decoder.produced[2].count = 42

\* C21: turn_token_into_id returns N - 10 - (position mod 7) * 4096 exactly
\* when, after trimming, the text from the last "<custom_token_" to the end
\* is that prefix, a non-empty run of decimal digits N and a closing ">";
\* for every other string it returns None.
ClaimC21 ==
    parsed.calls > 0
        => /\ ~parsed.raised
           /\ IF WellFormed(parsed.token_string)
              THEN parsed.ret = Some(parsed.n - 10 - (parsed.index % 7) * 4096)
              ELSE parsed.ret.none

\* C22: turn_token_into_id raises no exception, for every token string,
\* every position and every cache state: it returns an integer or None.
ClaimC22 == ~parsed.raised

\* the layout C23 gives for a window w of F frames, positions counted from 1
LayoutC23(w) ==
    LET F == Len(w) \div 7
        C0 == codes_0(w, F)
        C1 == codes_1(w, F)
        C2 == codes_2(w, F)
    IN  /\ Len(w) = 7 * F
        /\ DOMAIN C0 = 1..F /\ DOMAIN C1 = 1..(2 * F) /\ DOMAIN C2 = 1..(4 * F)
        /\ \A i \in 0..(F - 1) :
              /\ C0[i + 1] = w[7 * i + 1]
              /\ C1[2 * i + 1] = w[7 * i + 2]
              /\ C1[2 * i + 2] = w[7 * i + 5]
              /\ C2[4 * i + 1] = w[7 * i + 3]
              /\ C2[4 * i + 2] = w[7 * i + 4]
              /\ C2[4 * i + 3] = w[7 * i + 6]
              /\ C2[4 * i + 4] = w[7 * i + 7]
        /\ \A p \in 1..Len(w) : 0 <= w[p] /\ w[p] <= 4096

\* the window of the decoding attempt tokens_decoder has just made
LastWindow ==
    IF decoder.first_chunk_sent
    THEN SubSeq(decoder.buffer,
                IF decoder.count > 28 THEN decoder.count - 27 ELSE 1, decoder.count)
    ELSE SubSeq(decoder.buffer, decoder.count - 6, decoder.count)

\* C23: for every window of F frames on which convert_to_audio called the
\* decoder (the call returned a chunk, or raised), frame i of the window
\* gives C0[i] = window[7i], C1[2i..2i+1] = (window[7i+1], window[7i+4]) and
\* C2[4i..4i+3] = (window[7i+2], window[7i+3], window[7i+5], window[7i+6]),
\* the three codebooks hold F, 2F and 4F entries, so every window element
\* stands at exactly one position, in arrival order, and all 7F values lie
\* in [0, 4096].
TheoremC23 ==
    /\ \A k \in 1..Len(decoder.produced) : LayoutC23(decoder.produced[k].window)
    /\ decoder.failure = "decoder" => LayoutC23(LastWindow)

\* a chunk decoded at count 28 from a window of four frames of distinct indices
WitnessC23 ==
    \E k \in 1..Len(decoder.produced) :
        /\ decoder.produced[k].count = 28
        /\ Len(decoder.produced[k].window) = 28
        /\ \A p, q \in 1..28 :
              p # q => decoder.produced[k].window[p] # decoder.produced[k].window[q]

\* line 110: the first sample of audio_hat[:, :, 2048:4096] and the sample
\* after its last one, for a waveform of S samples
slice_lo(S) == IF S < SLICE_FROM THEN S ELSE SLICE_FROM
slice_hi(S) == IF S < SLICE_TO THEN S ELSE SLICE_TO

\* The decoder output for a window of F frames taken as F consecutive
\* segments of 2048 samples, one per frame of the window in order: the
\* slice emitted for that window is exactly segment g (counted from 1).
SliceIsSegment(chunk, g) ==
    LET F == Len(chunk.window) \div 7
        S == SnacCodec[F]
    IN  /\ slice_lo(S) = SnacCodec[1] * (g - 1)
        /\ slice_hi(S) = SnacCodec[1] * g
        /\ chunk.samples = slice_hi(S) - slice_lo(S)

\* C24 as stated: for every decoder invocation the scheduler makes, the
\* emitted slice [2048:4096] is the audio of the second-to-last frame of
\* the window.
ClaimC24 ==
    \A k \in 1..Len(decoder.produced) :
        SliceIsSegment(decoder.produced[k], Len(decoder.produced[k].window) \div 7 - 1)

\* C24 amended: for every invocation on a window of two or more frames the
\* emitted slice is the audio of the second frame of the window (the last
\* frame of a 2-frame window, the second-to-last of a 3-frame window, the
\* third-to-last of a 4-frame window); on the 1-frame window of the first
\* chunk the slice is empty.
TheoremC24 ==
    \A k \in 1..Len(decoder.produced) :
        LET chunk == decoder.produced[k]
            F == Len(chunk.window) \div 7
        IN  IF F >= 2 THEN SliceIsSegment(chunk, 2)
            ELSE /\ chunk.samples = 0
                 /\ slice_lo(SnacCodec[F]) = slice_hi(SnacCodec[F])

\* chunks decoded from 1, 2, 3 and 4 frames, then from the sliding window
WitnessC24 ==
    /\ Len(decoder.produced) = 5
    /\ \A k \in 1..4 : Len(decoder.produced[k].window) = 7 * k
    /\ decoder.produced[5].count = 35
    /\ decoder.produced[5].samples = 2048

\* the frame of the request (counted from 1) whose audio a non-empty chunk
\* holds: the second frame of its window
EmittedFrame(chunk) == (chunk.count - Len(chunk.window)) \div 7 + 2

\* C25: with the decoder output taken as one 2048-sample segment per window
\* frame, the non-empty chunks of a request are the audio of strictly
\* increasing, consecutive frames of the request: each non-empty chunk
\* holds the frame after the one of the non-empty chunk before it, and no
\* frame is emitted in two chunks, as the window grows (counts 7, 14, 21,
\* 28) and as it slides.
ClaimC25 ==
    \A k, l \in 1..Len(decoder.produced) :
        (/\ k < l
         /\ decoder.produced[k].samples > 0
         /\ decoder.produced[l].samples > 0
         /\ \A m \in (k + 1)..(l - 1) : decoder.produced[m].samples = 0)
            => EmittedFrame(decoder.produced[l]) = EmittedFrame(decoder.produced[k]) + 1

\* the plain token of the stream of thread t after count accepted tokens
OwnToken(t, count) ==
    IF t = 2 /\ scenario = "other" THEN Padded(PlainToken(count)) ELSE PlainToken(count)

\* tokens_decoder run alone in a fresh process on the stream of thread t:
\* its state after the strings that are no token (garbage of them) and the
\* first n plain tokens of that stream, the decoder returning every time
RECURSIVE Alone(_, _, _)
Alone(t, garbage, n) ==
    IF n > 0
    THEN tokens_decoder(Alone(t, garbage, n - 1), OwnToken(t, n - 1), SnacCodec, FALSE)
    ELSE IF garbage > 0
    THEN tokens_decoder(Alone(t, garbage - 1, 0), Garbage, SnacCodec, FALSE)
    ELSE NewDecoder([tab |-> EmptyTab, others |-> 0])

\* C26: what a request accepts and produces is a function of its own token
\* stream only: whatever the other request has done before or in between
\* and whatever the shared cache holds (empty, nearly full, full), every
\* plain token a thread has taken was accepted, and its buffer, count,
\* first-chunk flag and chunks are those of the run alone on the tokens it
\* has taken (up to the chunk of a decoder call still in progress or that
\* raised).
TheoremC26 ==
    \A t \in DOMAIN threads :
        LET th == threads[t]
            parsing == IF th.pc = "store" /\ ~th.ret.none THEN 1 ELSE 0
            settled == IF th.pc \in {"decode", "crashed"}
                       THEN th.d.count - 1 ELSE th.d.count
            alone == Alone(t, th.odd, th.d.count)
            before == IF settled = th.d.count THEN alone ELSE Alone(t, th.odd, settled)
        IN  /\ th.taken = th.d.count + th.odd + parsing
            /\ th.d.count = alone.count
            /\ th.d.buffer = alone.buffer
            /\ th.d.produced = before.produced
            /\ th.d.first_chunk_sent = before.first_chunk_sent

\* both requests were fed the same stream interleaved, the second one found
\* entries of the first in the cache, and each has emitted its first chunk
WitnessC26 ==
    /\ scenario = "same"
    /\ DOMAIN threads = Threads
    /\ \A t \in Threads : threads[t].d.count = 7 /\ Len(threads[t].d.produced) = 1
    /\ \E key \in DOMAIN results : Len(results[key]) = 2
    /\ token_id_cache.others = 0

====
